---- MODULE Spec2Model ----
(***************************************************************************)
(* A model of src/main.py: the Prometheus scheduling loop                  *)
(* (prometheus_main_loop), the pipeline steps it calls (get_market_data,   *)
(* analyze_social_sentiment, analyze_and_score, build_html_directive,      *)
(* send_email) and the status server (run_health_check_server).            *)
(*                                                                         *)
(* Scores are kept in hundredths (score 50.0 is 5000): the provider values *)
(* the model draws make 0.5*s + 0.3*c + 0.2*(vol/mc) exact in hundredths,  *)
(* and the float results of the Python code agree with them.               *)
(* The clock is the wall clock read by now_utc().  It is read anew after   *)
(* each sleep; the date it shows never goes back, the time of day it shows *)
(* is free (the loop may wake any number of times inside one minute).      *)
(***************************************************************************)
EXTENDS Integers, Sequences, FiniteSets, TLC

VARIABLES
    AGENT_STATUS,      \* the module-level status string (line 9)
    last_report_date,  \* local of prometheus_main_loop (line 80); NoDate is None
    pc,                \* position of the scanner thread in prometheus_main_loop
    clock,             \* the UTC wall clock, [day, tod]; `now` of line 83 is its value at the wake
    candidates,        \* local `candidates` (line 88)
    scored_list,       \* local `scored_list` (line 90)
    scored_coins,      \* local `scored_coins` of analyze_and_score (line 54)
    fetch_failed,      \* whether get_market_data took its except branch this iteration
    exc,               \* str(e) of the exception travelling to line 103, "" if none
    calls,             \* the pipeline functions called in the current iteration, in order
    runs,              \* per day: how many times the pipeline was started
    raised_days,       \* the days on which an iteration ended in the handler of line 103
    smtp_attempts,     \* per day: how many times send_email reached SMTP_SSL (line 31)
    blobs,             \* the objects [key, body] in blob storage (no step of main.py writes one)
    mail_configured,   \* EMAIL_SENDER and EMAIL_PASSWORD are both set (lines 12-13)
    response           \* what the status server sent in the step just taken (NoResponse: nothing)

vars == <<AGENT_STATUS, last_report_date, pc, clock, candidates, scored_list, scored_coins,
          fetch_failed, exc, calls, runs, raised_days, smtp_attempts, blobs,
          mail_configured, response>>

----------------------------------------------------------------------------
(* Bounds of the model *)

\* days 0..MaxDay are modelled
MaxDay == 1
\* the provider returns at most MaxCand entries
MaxCand == 2

(* Program constants *)

DAILY_REPORT_TIME == "09:00"
AGENT_VERSION == "v2.0 (Prometheus - Status Enabled)"
\* MAX_PRICE = 1.0, in hundredths
MAX_PRICE == 100
\* MINIMUM_SCORE_THRESHOLD = 50 (compared with scores in hundredths as 50 * 100)
MINIMUM_SCORE_THRESHOLD == 50
\* the clamp min(score, 99.9), in hundredths
SCORE_CAP == 9990
NoDate == -1
None == -1

Days == 0..MaxDay

\* The times of day <<hour, minute, second>> at which the clock is read.
Tods == << <<8, 59, 45>>, <<9, 0, 15>>, <<9, 0, 45>>, <<9, 1, 15>>, <<21, 0, 15>> >>

Times == [day : Days, tod : 1..Len(Tods)]

\* what the clock may show at the next wake: its date does not go back
NextReading(t, u) == u.day >= t.day

----------------------------------------------------------------------------
(* Formatting *)

Pad2(n) == IF n < 10 THEN "0" \o ToString(n) ELSE ToString(n)

\* now.strftime('%H:%M')
StrfHM(t) == Pad2(Tods[t.tod][1]) \o ":" \o Pad2(Tods[t.tod][2])

\* now.strftime('%H:%M:%S')
StrfHMS(t) == StrfHM(t) \o ":" \o Pad2(Tods[t.tod][3])

\* str(now.date()): day d of the model is the (d+1)-th of January 2024
DateStr(d) == "2024-01-" \o Pad2(d + 1)

\* now.isoformat() of an aware UTC datetime
IsoFormat(t) == DateStr(t.day) \o "T" \o StrfHMS(t) \o "+00:00"

----------------------------------------------------------------------------
(* The status strings *)

StatusInitializing == "INITIALIZING"

StatusStarted ==
    "Cognitive Core Started. Waiting for schedule at " \o DAILY_REPORT_TIME \o " UTC."

StatusIdle(t) ==
    "Cognitive Core is idle. Current time is " \o StrfHMS(t)
        \o " UTC. Waiting for " \o DAILY_REPORT_TIME \o " UTC."

StatusTriggered(t) == "Directive time reached! Initiating analysis at " \o IsoFormat(t)

StatusSending(coin) ==
    "Analysis complete. Best coin: " \o coin.name \o ". Sending directive."

StatusWithheld ==
    "Analysis complete. No candidate met the minimum score of "
        \o ToString(MINIMUM_SCORE_THRESHOLD) \o ". Directive withheld."

StatusNoCandidates == "Analysis complete. Market data synthesis returned no candidates."

StatusFetchFailed(t) == "ERROR: CoinGecko fetch failed at " \o IsoFormat(t)

StatusEmailFailed(t) == "ERROR: Email failed at " \o IsoFormat(t)

StatusFatal(e, t) == "FATAL ERROR in main loop: " \o e \o " at " \o IsoFormat(t)

----------------------------------------------------------------------------
(* The market-data provider and get_market_data (lines 36-44) *)

\* One entry of the provider's JSON array.  current_price is in hundredths and
\* None when the key is missing or null; market_cap, total_volume and
\* price_change_percentage_24h are 0 when missing, null or zero (the code reads
\* all three through `or`); has_price tells whether the entry carries a key
\* named 'price' (the provider's documented entries do not).
Entry(sym, nm, cp, mc, vol, chg, hp) ==
    [symbol |-> sym, name |-> nm, current_price |-> cp, market_cap |-> mc,
     total_volume |-> vol, price_change_percentage_24h |-> chg, has_price |-> hp]

ProviderEntries ==
    { Entry("alp", "Alpha", 50, 1, 1, 1, TRUE),
      Entry("bet", "Beta", 100, 1, 1, 1, FALSE),
      Entry("gam", "Gamma", 1, 2, 3, 400, TRUE),
      Entry("del", "Delta", 150, 0, 0, 0, TRUE),
      Entry("eps", "Epsilon", None, 1, 1, 0, TRUE),
      Entry("zet", "Zeta", 0, 1, 1, 0, TRUE) }

SeqsUpTo(S, n) == UNION { [1..k -> S] : k \in 0..n }

ProviderLists == SeqsUpTo(ProviderEntries, MaxCand)

\* c.get('current_price') and c.get('current_price') <= MAX_PRICE  (line 40)
PriceFilter(c) ==
    /\ c.current_price # None
    /\ c.current_price # 0
    /\ c.current_price <= MAX_PRICE

RECURSIVE FilterSeq(_)
FilterSeq(s) ==
    IF s = <<>> THEN <<>>
    ELSE IF PriceFilter(Head(s)) THEN <<Head(s)>> \o FilterSeq(Tail(s))
         ELSE FilterSeq(Tail(s))

\* get_market_data with its except branch returning [] without writing the status
get_market_data_Silent(ok, raw, status, t) ==
    IF ok THEN [value |-> FilterSeq(raw), status |-> status, failed |-> FALSE]
    ELSE [value |-> <<>>, status |-> status, failed |-> TRUE]

\* get_market_data: `ok` is FALSE when requests.get, raise_for_status or
\* r.json() raised; the result is the returned list and the status written.
get_market_data(ok, raw, status, t) ==
    IF ok THEN [value |-> FilterSeq(raw), status |-> status, failed |-> FALSE]
    ELSE [value |-> <<>>, status |-> StatusFetchFailed(t), failed |-> TRUE]

----------------------------------------------------------------------------
(* The sentiment provider and analyze_social_sentiment (lines 46-51) *)

\* A Python value as far as the scoring arithmetic tells values apart.
IntVal(n) == [ty |-> "int", v |-> n]
NoneVal == [ty |-> "none", v |-> 0]
StrVal == [ty |-> "str", v |-> 0]

\* One outcome of the GET of line 49: `raises` (timeout, transport error),
\* else the status code, whether the body parses as JSON, what the body holds
\* under 'metadata' ("absent", "null" or "object"), and under
\* metadata.total_results (has_total tells whether the key is there).
Outcome(rs, code, js, meta, ht, tot) ==
    [raises |-> rs, code |-> code, json |-> js, meta |-> meta,
     has_total |-> ht, total |-> tot]

SentimentOutcomes ==
    { Outcome(TRUE, 0, FALSE, "absent", FALSE, NoneVal),
      Outcome(FALSE, 500, TRUE, "object", TRUE, IntVal(200)),
      Outcome(FALSE, 200, FALSE, "absent", FALSE, NoneVal),
      Outcome(FALSE, 200, TRUE, "absent", FALSE, NoneVal),
      Outcome(FALSE, 200, TRUE, "null", FALSE, NoneVal),
      Outcome(FALSE, 200, TRUE, "object", FALSE, NoneVal),
      Outcome(FALSE, 200, TRUE, "object", TRUE, NoneVal),
      Outcome(FALSE, 200, TRUE, "object", TRUE, StrVal),
      Outcome(FALSE, 200, TRUE, "object", TRUE, IntVal(99)),
      Outcome(FALSE, 200, TRUE, "object", TRUE, IntVal(101)) }

\* r.json().get('metadata', {}).get('total_results', 0) if r.status_code == 200 else 0
\* inside try / except Exception: return 0
analyze_social_sentiment(o) ==
    IF o.raises THEN IntVal(0)
    ELSE IF o.code # 200 THEN IntVal(0)
    ELSE IF ~o.json THEN IntVal(0)
    ELSE IF o.meta = "absent" THEN IntVal(0)
    ELSE IF o.meta = "null" THEN IntVal(0)
    ELSE IF ~o.has_total THEN IntVal(0)
    ELSE o.total

----------------------------------------------------------------------------
(* analyze_and_score (lines 53-62) *)

Min(a, b) == IF a <= b THEN a ELSE b

OrOne(x) == IF x = 0 THEN 1 ELSE x

\* lines 57-60, in hundredths: (sentiment * 0.5) + (chg24h * 0.3) + ((vol/mc) * 0.2)
ScoreOf(coin, sentiment) ==
    Min(50 * sentiment + 30 * coin.price_change_percentage_24h
            + (20 * OrOne(coin.total_volume)) \div OrOne(coin.market_cap),
        SCORE_CAP)

\* coin['score'] = ...
WithScore(coin, sc) == coin @@ [score |-> sc]

\* the candidate a scored coin was made from
Unscored(coin) == [f \in DOMAIN coin \ {"score"} |-> coin[f]]

\* what `sentiment * 0.5` raises for a sentiment that is not a number
MulError(val) ==
    IF val.ty = "none" THEN "unsupported operand type(s) for *: 'NoneType' and 'float'"
    ELSE "can't multiply sequence by non-int of type 'float'"

\* sorted(..., key=score, reverse=True) is stable: an element goes behind every
\* element whose score is at least its own.
RECURSIVE InsertDesc(_, _)
InsertDesc(x, s) ==
    IF s = <<>> THEN <<x>>
    ELSE IF Head(s).score >= x.score THEN <<Head(s)>> \o InsertDesc(x, Tail(s))
         ELSE <<x>> \o s

RECURSIVE SortedDesc(_)
SortedDesc(s) ==
    IF s = <<>> THEN <<>>
    ELSE InsertDesc(s[Len(s)], SortedDesc(SubSeq(s, 1, Len(s) - 1)))

\* One pass of the loop of lines 55-61 for `coin`, `o` being the outcome of its
\* sentiment call and acc the list scored_coins.
ScorePass(coin, o, acc) ==
    LET s == analyze_social_sentiment(o)
    IN  IF s.ty # "int"
        THEN [raised |-> TRUE, exc |-> MulError(s), value |-> acc]
        ELSE [raised |-> FALSE, exc |-> "",
              value |-> Append(acc, WithScore(coin, ScoreOf(coin, s.v)))]

----------------------------------------------------------------------------
(* build_html_directive (lines 64-74) and send_email (lines 26-34) *)

\* price = coin['price'] (line 69) raises KeyError for a coin without that key;
\* nothing else of the function can fail for the entries of the model.
build_html_directive(coin) ==
    IF coin.has_price THEN [raised |-> FALSE, exc |-> ""]
    ELSE [raised |-> TRUE, exc |-> "'price'"]

\* send_email: returns at once without credentials (line 27); else it reaches
\* the transport (line 31), and `ok` tells whether login and send_message went
\* through.  The result counts the transport attempts made and gives the
\* status left behind.
send_email(configured, ok, status, t) ==
    IF ~configured THEN [attempts |-> 0, status |-> status]
    ELSE IF ok THEN [attempts |-> 1, status |-> status]
    ELSE [attempts |-> 1, status |-> StatusEmailFailed(t)]

----------------------------------------------------------------------------
(* prometheus_main_loop (lines 77-105) *)

\* line 85 without the test of the date
ShouldTrigger_EveryPoll(t, last) == StrfHM(t) = DAILY_REPORT_TIME

\* line 85
ShouldTrigger(t, last) == StrfHM(t) = DAILY_REPORT_TIME /\ t.day # last

\* line 87 left out: the date of the run is never recorded
ReportDate_Forgotten(t) == NoDate

\* line 87: last_report_date = now.date()
ReportDate(t) == t.day

\* line 91: scored_list and scored_list[0]['score'] > MINIMUM_SCORE_THRESHOLD
AboveThreshold(sl) == sl # <<>> /\ sl[1].score > MINIMUM_SCORE_THRESHOLD * 100

NoResponse == [code |-> 0, ctype |-> "", body |-> ""]

Bump(f, d) == [f EXCEPT ![d] = @ + 1]

\* the locals of one iteration, and what the environment has seen so far
locals == <<candidates, scored_list, scored_coins>>
history == <<runs, raised_days, smtp_attempts, blobs>>

Init ==
    /\ AGENT_STATUS = StatusInitializing
    /\ last_report_date = NoDate
    /\ pc = "start"
    /\ clock \in {t \in Times : t.day = 0}
    /\ candidates = <<>>
    /\ scored_list = <<>>
    /\ scored_coins = <<>>
    /\ fetch_failed = FALSE
    /\ exc = ""
    /\ calls = <<>>
    /\ runs = [d \in Days |-> 0]
    /\ raised_days = {}
    /\ smtp_attempts = [d \in Days |-> 0]
    /\ blobs = {}
    /\ mail_configured \in BOOLEAN
    /\ response = NoResponse

\* lines 78-80
StartLoop ==
    /\ pc = "start"
    /\ AGENT_STATUS' = StatusStarted
    /\ last_report_date' = NoDate
    /\ pc' = "top"
    /\ response' = NoResponse
    /\ UNCHANGED <<clock, locals, fetch_failed, exc, calls, history, mail_configured>>

\* lines 83-87: one wake of the loop
Wake ==
    /\ pc = "top"
    /\ candidates' = <<>>
    /\ scored_list' = <<>>
    /\ scored_coins' = <<>>
    /\ fetch_failed' = FALSE
    /\ exc' = ""
    /\ calls' = <<>>
    /\ IF ShouldTrigger(clock, last_report_date)
       THEN /\ AGENT_STATUS' = StatusTriggered(clock)
            /\ last_report_date' = ReportDate(clock)
            /\ runs' = Bump(runs, clock.day)
            /\ pc' = "fetch"
       ELSE /\ AGENT_STATUS' = StatusIdle(clock)
            /\ pc' = "sleep"
            /\ UNCHANGED <<last_report_date, runs>>
    /\ response' = NoResponse
    /\ UNCHANGED <<clock, raised_days, smtp_attempts, blobs, mail_configured>>

\* line 88
Fetch ==
    /\ pc = "fetch"
    /\ \E ok \in BOOLEAN, raw \in ProviderLists :
         LET r == get_market_data(ok, raw, AGENT_STATUS, clock)
         IN  /\ ok \/ raw = <<>>
             /\ candidates' = r.value
             /\ AGENT_STATUS' = r.status
             /\ fetch_failed' = r.failed
    /\ calls' = Append(calls, "get_market_data")
    /\ pc' = "branch"
    /\ response' = NoResponse
    /\ UNCHANGED <<last_report_date, clock, scored_list, scored_coins, exc, history,
                   mail_configured>>

\* line 89 as `if candidates is not None`: an empty list is scored too
Branch_ScoresEmpty ==
    /\ pc = "branch"
    /\ pc' = "score"
    /\ calls' = Append(calls, "analyze_and_score")
    /\ response' = NoResponse
    /\ UNCHANGED <<AGENT_STATUS, last_report_date, clock, locals, fetch_failed, exc,
                   history, mail_configured>>

\* lines 89-90 (the call of analyze_and_score, line 54) and 99-100
Branch ==
    /\ pc = "branch"
    /\ IF candidates # <<>>
       THEN /\ pc' = "score"
            /\ calls' = Append(calls, "analyze_and_score")
            /\ UNCHANGED AGENT_STATUS
       ELSE /\ AGENT_STATUS' = StatusNoCandidates
            /\ pc' = "sleep"
            /\ UNCHANGED calls
    /\ response' = NoResponse
    /\ UNCHANGED <<last_report_date, clock, locals, fetch_failed, exc, history,
                   mail_configured>>

\* lines 55-61: one pass of the loop of analyze_and_score, with its sentiment call
ScoreNext ==
    /\ pc = "score"
    /\ Len(scored_coins) < Len(candidates)
    /\ \E o \in SentimentOutcomes :
         LET r == ScorePass(candidates[Len(scored_coins) + 1], o, scored_coins)
         IN  /\ scored_coins' = r.value
             /\ exc' = r.exc
             /\ pc' = IF r.raised THEN "except" ELSE "score"
    /\ response' = NoResponse
    /\ UNCHANGED <<AGENT_STATUS, last_report_date, clock, candidates, scored_list,
                   fetch_failed, calls, history, mail_configured>>

\* line 62, and the assignment of line 90
ScoreReturn ==
    /\ pc = "score"
    /\ Len(scored_coins) = Len(candidates)
    /\ scored_list' = SortedDesc(scored_coins)
    /\ pc' = "check"
    /\ response' = NoResponse
    /\ UNCHANGED <<AGENT_STATUS, last_report_date, clock, candidates, scored_coins,
                   fetch_failed, exc, calls, history, mail_configured>>

\* lines 91-93, 97-98
Check ==
    /\ pc = "check"
    /\ IF AboveThreshold(scored_list)
       THEN /\ AGENT_STATUS' = StatusSending(scored_list[1])
            /\ pc' = "build"
       ELSE /\ AGENT_STATUS' = StatusWithheld
            /\ pc' = "sleep"
    /\ response' = NoResponse
    /\ UNCHANGED <<last_report_date, clock, locals, fetch_failed, exc, calls, history,
                   mail_configured>>

\* lines 94-95
Build ==
    /\ pc = "build"
    /\ LET r == build_html_directive(scored_list[1])
       IN  /\ exc' = r.exc
           /\ pc' = IF r.raised THEN "except" ELSE "send"
    /\ calls' = Append(calls, "build_html_directive")
    /\ response' = NoResponse
    /\ UNCHANGED <<AGENT_STATUS, last_report_date, clock, locals, fetch_failed, history,
                   mail_configured>>

\* line 96
Send ==
    /\ pc = "send"
    /\ \E ok \in BOOLEAN :
         LET r == send_email(mail_configured, ok, AGENT_STATUS, clock)
         IN  /\ smtp_attempts' = [smtp_attempts EXCEPT ![clock.day] = @ + r.attempts]
             /\ AGENT_STATUS' = r.status
    /\ calls' = Append(calls, "send_email")
    /\ pc' = "sleep"
    /\ response' = NoResponse
    /\ UNCHANGED <<last_report_date, clock, locals, fetch_failed, exc, runs, raised_days,
                   blobs, mail_configured>>

\* the handler re-raising: the scanner thread ends
Handler_Exits ==
    /\ pc = "except"
    /\ pc' = "dead"
    /\ response' = NoResponse
    /\ UNCHANGED <<AGENT_STATUS, last_report_date, clock, locals, fetch_failed, exc, calls,
                   history, mail_configured>>

\* lines 103-104: the handler of the loop's try
Handler ==
    /\ pc = "except"
    /\ AGENT_STATUS' = StatusFatal(exc, clock)
    /\ pc' = "errsleep"
    /\ raised_days' = raised_days \cup {clock.day}
    /\ response' = NoResponse
    /\ UNCHANGED <<last_report_date, clock, locals, fetch_failed, exc, calls, runs,
                   smtp_attempts, blobs, mail_configured>>

\* time.sleep(30) of line 102 or of line 105: the clock shows a new reading, and
\* the locals of the iteration, which are not read again, are dropped.
Sleep ==
    /\ pc \in {"sleep", "errsleep"}
    /\ \E t \in Times : NextReading(clock, t) /\ clock' = t
    /\ pc' = "top"
    /\ candidates' = <<>>
    /\ scored_list' = <<>>
    /\ scored_coins' = <<>>
    /\ response' = NoResponse
    /\ UNCHANGED <<AGENT_STATUS, last_report_date, fetch_failed, exc, calls, history,
                   mail_configured>>

----------------------------------------------------------------------------
(* run_health_check_server (lines 107-119) *)

Methods == {"GET", "POST"}
Paths == {"/", "/health"}

\* line 114 answering a fixed text instead of the status
StatusBody_Static(status) == "Prometheus Status: OK"

\* line 114
StatusBody(status) == "Prometheus Status: " \o status

\* do_GET, lines 109-115
do_GET(status) == [code |-> 200, ctype |-> "text/plain", body |-> StatusBody(status)]

\* HealthCheckHandler defines do_GET only: for any other method its base class
\* BaseHTTPRequestHandler answers 501 with an error page.
HandleRequest(method, path, status) ==
    IF method = "GET" THEN do_GET(status)
    ELSE [code |-> 501, ctype |-> "text/html;charset=utf-8",
          body |-> "Unsupported method ('" \o method \o "')"]

\* one request served; the status is read once (line 114)
Request(method, path) ==
    /\ response' = HandleRequest(method, path, AGENT_STATUS)
    /\ UNCHANGED <<AGENT_STATUS, last_report_date, pc, clock, locals, fetch_failed, exc,
                   calls, history, mail_configured>>

Serve == \E method \in Methods, path \in Paths : Request(method, path)

----------------------------------------------------------------------------

Next ==
    \/ StartLoop
    \/ Wake
    \/ Fetch
    \/ Branch
    \/ ScoreNext
    \/ ScoreReturn
    \/ Check
    \/ Build
    \/ Send
    \/ Handler
    \/ Sleep
    \/ Serve

Spec == Init /\ [][Next]_vars

----------------------------------------------------------------------------
(* Properties *)

BlobKey(d) == "daily_analysis_" \o DateStr(d) \o ".json"

LastCall == IF calls = <<>> THEN "" ELSE calls[Len(calls)]

Called(f) == \E i \in 1..Len(calls) : calls[i] = f

TimesCalled(f) == Cardinality({i \in 1..Len(calls) : calls[i] = f})

\* the positions of an iteration whose pipeline has run past the fetch
AfterFetch == {"branch", "score", "check", "build", "send", "except", "errsleep", "sleep"}

\* the positions at which the call of analyze_and_score has ended
AfterScoring == {"check", "build", "send", "except", "errsleep", "sleep"}

\* C1: on no UTC day does send_email reach the mail transport more than once,
\* however often the loop wakes inside the trigger minute and whatever the
\* fetch, scoring and mail outcomes are.
C1_OneMailPerDay == \A d \in Days : smtp_attempts[d] <= 1

\* a wake inside the trigger minute, on a day whose mail has already gone out,
\* has ended idle
C1_Witness ==
    /\ pc = "sleep"
    /\ AGENT_STATUS = StatusIdle(clock)
    /\ StrfHM(clock) = DAILY_REPORT_TIME
    /\ smtp_attempts[clock.day] = 1

\* C2: in a triggered run with candidates and mail credentials, a top score
\* equal to the threshold sends nothing and leaves the 'withheld' status, and a
\* top score above the threshold builds the report and reaches the mail
\* transport exactly once in that run.
C2_ThresholdDecides ==
    (pc \in {"sleep", "errsleep"} /\ mail_configured /\ scored_list # <<>>) =>
        /\ scored_list[1].score = MINIMUM_SCORE_THRESHOLD * 100 =>
              /\ TimesCalled("send_email") = 0
              /\ smtp_attempts[clock.day] = 0
              /\ AGENT_STATUS = StatusWithheld
        /\ scored_list[1].score > MINIMUM_SCORE_THRESHOLD * 100 =>
              /\ TimesCalled("build_html_directive") = 1
              /\ TimesCalled("send_email") = 1
              /\ smtp_attempts[clock.day] = 1

\* C3: a day sees at most one pipeline run; a wake inside the trigger minute
\* that starts none finds the day's run already made; and from the first step
\* of a run on, whether it fails or raises, last_report_date is that day.
C3_OneRunPerDay ==
    /\ \A d \in Days : runs[d] <= 1
    /\ (pc = "sleep" /\ AGENT_STATUS = StatusIdle(clock)
            /\ StrfHM(clock) = DAILY_REPORT_TIME) => runs[clock.day] = 1
    /\ (pc \in AfterFetch \cup {"fetch"} /\ (pc = "sleep" => calls # <<>>)) =>
           /\ last_report_date = clock.day
           /\ runs[clock.day] = 1

\* the wake of 09:00:45 has ended idle on a day whose run raised
C3_Witness ==
    /\ pc = "sleep"
    /\ AGENT_STATUS = StatusIdle(clock)
    /\ Tods[clock.tod] = <<9, 0, 45>>
    /\ clock.day \in raised_days
    /\ runs[clock.day] = 1

\* C4: an exception of an iteration reaches the handler of the loop, which
\* leaves the fatal-error status with the exception's text and the time and
\* goes to sleep; after the sleep the loop is at its top again, where the next
\* wake is enabled and sets the idle or the triggered status: no position of
\* the loop is left for good.
C4_LoopSurvives ==
    [][ /\ (pc = "except" /\ pc' # pc) =>
              /\ pc' = "errsleep"
              /\ exc # ""
              /\ AGENT_STATUS' = StatusFatal(exc, clock)
        /\ (pc = "errsleep" /\ pc' # pc) =>
              /\ pc' = "top"
              /\ AGENT_STATUS' = AGENT_STATUS
        /\ (pc = "top" /\ pc' # pc) =>
              /\ pc' \in {"sleep", "fetch"}
              /\ AGENT_STATUS' \in {StatusIdle(clock), StatusTriggered(clock)}
        /\ pc = "except" => ENABLED Handler
        /\ pc = "top" => ENABLED Wake
      ]_vars

\* the iteration after one that raised has run and sleeps idle
C4_Witness ==
    /\ pc = "sleep"
    /\ AGENT_STATUS = StatusIdle(clock)
    /\ raised_days # {}

\* C5 as stated: every request, whatever its method and path, is answered 200
\* text/plain with the body 'Prometheus Status: <status> | Version: <version>',
\* and changes neither AGENT_STATUS nor last_report_date.
C5_Original ==
    [][ \A method \in Methods, path \in Paths :
          Request(method, path) =>
              /\ response' = [code |-> 200, ctype |-> "text/plain",
                              body |-> "Prometheus Status: " \o AGENT_STATUS
                                          \o " | Version: " \o AGENT_VERSION]
              /\ UNCHANGED <<AGENT_STATUS, last_report_date>>
      ]_vars

\* C5 (amended): every GET request, whatever its path, is answered 200
\* text/plain with the body 'Prometheus Status: <status>', <status> being the
\* current AGENT_STATUS, without any version; a request of another method is
\* answered 501; no request changes AGENT_STATUS or last_report_date.
C5_StatusEndpoint ==
    [][ \A method \in Methods, path \in Paths :
          Request(method, path) =>
              /\ method = "GET" =>
                    response' = [code |-> 200, ctype |-> "text/plain",
                                 body |-> "Prometheus Status: " \o AGENT_STATUS]
              /\ method # "GET" => response'.code = 501
              /\ UNCHANGED <<AGENT_STATUS, last_report_date>>
      ]_vars

\* a GET has been answered while the loop sleeps after a withheld directive
C5_Witness ==
    /\ pc = "sleep"
    /\ AGENT_STATUS = StatusWithheld
    /\ response = [code |-> 200, ctype |-> "text/plain",
                   body |-> "Prometheus Status: " \o StatusWithheld]

\* C6: once scoring has returned a non-empty ranked list in a triggered run,
\* the list is stored under daily_analysis_<date>.json before the threshold is
\* looked at, so also when the directive is withheld.
C6_PersistedBeforeThreshold ==
    (pc \in {"build", "send", "sleep"} /\ scored_list # <<>>) =>
        \E b \in blobs : b.key = BlobKey(clock.day) /\ b.body = scored_list

\* C7: in a triggered run whose fetch gave no candidates, analyze_and_score and
\* send_email are not called, nothing is stored or mailed, and the iteration
\* goes to sleep with the 'no candidates' status.
C7_EmptyFetch ==
    (pc \in AfterFetch /\ Called("get_market_data") /\ candidates = <<>>) =>
        /\ calls = <<"get_market_data">>
        /\ pc \in {"branch", "sleep"}
        /\ pc = "sleep" => AGENT_STATUS = StatusNoCandidates
        /\ smtp_attempts[clock.day] = 0
        /\ \A b \in blobs : b.key # BlobKey(clock.day)

\* the provider answered, nothing passed the price filter, the iteration sleeps
C7_Witness ==
    /\ pc = "sleep"
    /\ calls = <<"get_market_data">>
    /\ ~fetch_failed
    /\ AGENT_STATUS = StatusNoCandidates

\* scored list sl is the candidates cs in the order p
IsRanking(sl, cs, p) ==
    /\ \A i \in 1..Len(sl) : Unscored(sl[i]) = cs[p[i]]
    /\ \A i, j \in 1..Len(sl) : i < j =>
          /\ sl[i].score >= sl[j].score
          /\ sl[i].score = sl[j].score => p[i] < p[j]

Orders(n) == {p \in [1..n -> 1..n] : \A i, j \in 1..n : p[i] = p[j] => i = j}

\* C8: whenever analyze_and_score has been called on a candidate list, it has
\* returned that list's candidates, as many as went in, each with a score,
\* non-increasing by score and with equal scores in their input order.
C8_StableRanking ==
    (pc \in AfterScoring /\ Called("analyze_and_score")) =>
        /\ Len(scored_list) = Len(candidates)
        /\ \E p \in Orders(Len(candidates)) : IsRanking(scored_list, candidates, p)

\* C9: whatever the sentiment call of a candidate gives, scoring does not
\* raise: no exception reaches the loop's handler out of analyze_and_score.
C9_ScoringNeverRaises == ~(pc = "except" /\ LastCall = "analyze_and_score")

\* C10 as stated: after a failed fetch the failure record is the status the
\* sleeping iteration shows.
C10_Original ==
    (pc = "sleep" /\ fetch_failed) => AGENT_STATUS = StatusFetchFailed(clock)

\* C10 (amended): a failed fetch returns the empty list without raising and
\* writes the failure record, which is the status until line 100 replaces it,
\* in the same iteration, by the 'no candidates' message; that message is the
\* status of the sleeping iteration.
C10_FetchFailure ==
    (fetch_failed /\ pc # "top") =>
        /\ candidates = <<>>
        /\ calls = <<"get_market_data">>
        /\ pc \in {"branch", "sleep"}
        /\ pc = "branch" => AGENT_STATUS = StatusFetchFailed(clock)
        /\ pc = "sleep" => AGENT_STATUS = StatusNoCandidates

\* the status server answers a GET while the iteration of a failed fetch sleeps
C10_Witness ==
    /\ pc = "sleep"
    /\ fetch_failed
    /\ response = [code |-> 200, ctype |-> "text/plain",
                   body |-> "Prometheus Status: " \o StatusNoCandidates]

====
